---- MODULE Spec2Model ----
(***************************************************************************)
(* A model of editor/src/log_child_os_window.rs: the log viewer window.    *)
(* Records arrive on an mpsc channel, are classified by the marker         *)
(* "[__GAME__]" into two bounded rings, and a folded view of the rings is  *)
(* rebuilt by update_log_message_model under five check-box filters.       *)
(*                                                                         *)
(* A text is a sequence of one-character strings, so that `contains` and   *)
(* `replace` are computed on characters as str::contains / str::replace    *)
(* compute them.                                                           *)
(***************************************************************************)
EXTENDS Integers, Sequences, FiniteSets, TLC

VARIABLES
    log_message_receiver,   \* records in flight on the log channel (Receiver<LogMessage>)
    message_receiver,       \* messages in flight on the auxiliary channel (Receiver<Message>)
    ui_queue,               \* UI messages not yet polled (UserInterface::poll_message)
    messages_from_engine,   \* VecDeque<LogMessage>
    messages_from_game,     \* VecDeque<LogMessage>
    info_checked,
    warning_checked,
    error_checked,
    engine_checked,
    game_checked,
    nodes,                  \* the row widgets alive in the UI, by handle
    children,               \* handles of the children of log_stack_panel, top to bottom
    view,                   \* the folded items of the last update_log_message_model
    pc,                     \* position of the thread that runs update()
    received_anything,      \* local of update()
    message_model_requires_update, \* local of poll_ui_messages()
    routed_engine,          \* history: every record pushed to messages_from_engine
    routed_game,            \* history: every record pushed to messages_from_game
    filter_changed,         \* history: a check-box boolean changed value in this tick
    model_updated,          \* history: update_log_message_model ran in this tick
    n_events,               \* number of records, messages and hang-ups sent to the window so far
    connected               \* some Sender of the log channel is still alive

vars == << log_message_receiver, message_receiver, ui_queue, messages_from_engine,
           messages_from_game, info_checked, warning_checked, error_checked,
           engine_checked, game_checked, nodes, children, view, pc, received_anything,
           message_model_requires_update, routed_engine, routed_game,
           filter_changed, model_updated, n_events, connected >>

----------------------------------------------------------------------------
(* Bounds of the model. *)

\* Capacity of each ring; the program sets 1000, the model a capacity that
\* a few sends fill.
max_messages == 3

\* Records, UI messages and auxiliary messages sent to the window in one
\* behaviour, and hang-ups of the log channel, all together.
MaxEvents == 5

\* Records in flight on the log channel when the producers send without end.
MaxChannel == 1

\* Records held by the two rings together when update_log_message_model is
\* called on rings and filters drawn from all their values.
MaxDeriveRecords == 4

----------------------------------------------------------------------------
(* Texts. *)

\* The literal "[__GAME__]".
Marker == << "[", "_", "_", "G", "A", "M", "E", "_", "_", "]" >>

\* Contains that finds the marker in every text.
ContainsAlways(s) == TRUE

\* str::contains("[__GAME__]")
Contains(s) ==
    \E i \in 1..(Len(s) - Len(Marker) + 1) :
        SubSeq(s, i, i + Len(Marker) - 1) = Marker

\* str::replace("[__GAME__]", ""): one left-to-right pass over the
\* non-overlapping matches of the original text.
RECURSIVE Replace(_)
Replace(s) ==
    IF Len(s) < Len(Marker) THEN s
    ELSE IF SubSeq(s, 1, Len(Marker)) = Marker
         THEN Replace(SubSeq(s, Len(Marker) + 1, Len(s)))
         ELSE << Head(s) >> \o Replace(Tail(s))

LogMessage(k, c) == [ kind |-> k, content |-> c ]

\* Texts the producers send.
TextA    == << "a" >>
TextB    == << "b" >>
TextTwice == Marker \o TextA \o Marker
TextNested == << "[", "_", "_", "G", "A" >> \o Marker \o << "M", "E", "_", "_", "]" >>

\* Records the rings hold when update_log_message_model is called on its own.
DeriveRecords ==
    { LogMessage("Information", TextA),
      LogMessage("Warning", TextA),
      LogMessage("Information", TextB),
      LogMessage("Error", TextB) }

\* Records the producers send.
LogInputs ==
    { LogMessage("Information", TextA),
      LogMessage("Warning", TextA),
      LogMessage("Information", TextTwice),
      LogMessage("Warning", TextNested) }

----------------------------------------------------------------------------
(* The rings. *)

\* PushBounded that pops one record later than it should.
PushBoundedOffByOne(ring, m) ==
    LET pushed == Append(ring, m)
    IN  IF Len(pushed) > max_messages + 1 THEN Tail(pushed) ELSE pushed

\* PushBounded with pop_back in the place of pop_front.
PushBoundedPopBack(ring, m) ==
    LET pushed == Append(ring, m)
    IN  IF Len(pushed) > max_messages THEN SubSeq(pushed, 1, Len(pushed) - 1) ELSE pushed

\* PushBounded with push_front in the place of push_back.
PushBoundedPushFront(ring, m) ==
    LET pushed == << m >> \o ring
    IN  IF Len(pushed) > max_messages THEN Tail(pushed) ELSE pushed

\* push_back, then pop_front when the length exceeds max_messages.
PushBounded(ring, m) ==
    LET pushed == Append(ring, m)
    IN  IF Len(pushed) > max_messages THEN Tail(pushed) ELSE pushed

----------------------------------------------------------------------------
(* The deriver: the folding part of update_log_message_model. *)

CurrentFilter ==
    [ info |-> info_checked, warning |-> warning_checked, error |-> error_checked,
      engine |-> engine_checked, game |-> game_checked ]

\* Rejected with the test of the Warning gate left out.
RejectedWithoutWarning(message, F) ==
    \/ message.kind = "Information" /\ ~F.info
    \/ message.kind = "Error" /\ ~F.error

\* The condition of the `continue`.
Rejected(message, F) ==
    \/ message.kind = "Information" /\ ~F.info
    \/ message.kind = "Warning" /\ ~F.warning
    \/ message.kind = "Error" /\ ~F.error

\* Sources with the two rings in the other order.
SourcesEngineFirst(game, engine, F) ==
    << [ checked |-> F.engine, messages |-> engine ],
       [ checked |-> F.game, messages |-> game ] >>

\* The array the outer loop runs over: game first, then engine.
Sources(game, engine, F) ==
    << [ checked |-> F.game, messages |-> game ],
       [ checked |-> F.engine, messages |-> engine ] >>

Key(message) == << message.kind, message.content >>

EmptyFold == [ visited_messages |-> [ k \in {} |-> 0 ], folded_messages_rev |-> << >> ]

\* Visit without the increment of a key seen before.
VisitWithoutCount(acc, key) ==
    IF key \in DOMAIN acc.visited_messages
    THEN acc
    ELSE [ visited_messages |-> acc.visited_messages @@ (key :> 1),
           folded_messages_rev |-> Append(acc.folded_messages_rev, key) ]

\* Visit that pushes a row for every message, seen before or not.
VisitWithoutFold(acc, key) ==
    [ visited_messages |->
          IF key \in DOMAIN acc.visited_messages
          THEN [ acc.visited_messages EXCEPT ![key] = @ + 1 ]
          ELSE acc.visited_messages @@ (key :> 1),
      folded_messages_rev |-> Append(acc.folded_messages_rev, key) ]

\* One iteration of the inner loop on an admitted message.
Visit(acc, key) ==
    IF key \in DOMAIN acc.visited_messages
    THEN [ acc EXCEPT !.visited_messages[key] = @ + 1 ]
    ELSE [ visited_messages |-> acc.visited_messages @@ (key :> 1),
           folded_messages_rev |-> Append(acc.folded_messages_rev, key) ]

\* messages.iter().rev() from index i down to 1.
RECURSIVE ScanRev(_, _, _, _)
ScanRev(messages, i, F, acc) ==
    IF i = 0 THEN acc
    ELSE IF Rejected(messages[i], F)
         THEN ScanRev(messages, i - 1, F, acc)
         ELSE ScanRev(messages, i - 1, F, Visit(acc, Key(messages[i])))

\* The outer loop over the sources.
RECURSIVE ScanSources(_, _, _, _)
ScanSources(sources, s, F, acc) ==
    IF s > Len(sources) THEN acc
    ELSE IF sources[s].checked
         THEN ScanSources(sources, s + 1, F,
                          ScanRev(sources[s].messages, Len(sources[s].messages), F, acc))
         ELSE ScanSources(sources, s + 1, F, acc)

\* Emit without the rev(): the rows in the order of folded_messages_rev.
EmitWithoutRev(acc) ==
    [ index \in 1..Len(acc.folded_messages_rev) |->
        LET message == acc.folded_messages_rev[index]
        IN  [ kind |-> message[1], content |-> message[2],
              count |-> acc.visited_messages[message] ] ]

\* folded_messages_rev.into_iter().rev().enumerate(): the rows, top to bottom.
Emit(acc) ==
    LET n == Len(acc.folded_messages_rev)
    IN  [ index \in 1..n |->
            LET message == acc.folded_messages_rev[n + 1 - index]
            IN  [ kind |-> message[1], content |-> message[2],
                  count |-> acc.visited_messages[message] ] ]

Derive(game, engine, F) ==
    Emit(ScanSources(Sources(game, engine, F), 1, F, EmptyFold))

----------------------------------------------------------------------------
(* UI messages. *)

\* Handles of the widgets built by new(): distinct indices of the UI's pool.
info_checkbox == 1
warning_checkbox == 2
error_checkbox == 3
engine_checkbox == 4
game_checkbox == 5
log_stack_panel == 6

UiMessage(dest, dir, data) == [ destination |-> dest, direction |-> dir, data |-> data ]

\* CheckBoxMessage::Check(Option<bool>), and payloads of type WidgetMessage.
CheckSome(b) == [ type |-> "CheckBoxMessage", check |-> << b >> ]
CheckNone    == [ type |-> "CheckBoxMessage", check |-> << >> ]
OtherData    == [ type |-> "WidgetMessage::Other", check |-> << >> ]
RemoveData   == [ type |-> "WidgetMessage::Remove", check |-> << >> ]
LinkData     == [ type |-> "WidgetMessage::LinkWith", check |-> << >> ]

\* UI messages the widget system delivers on its own.
UiInputs ==
    { UiMessage(info_checkbox, "FromWidget", CheckSome(FALSE)),
      UiMessage(info_checkbox, "FromWidget", CheckSome(TRUE)),
      UiMessage(game_checkbox, "FromWidget", CheckNone),
      UiMessage(engine_checkbox, "ToWidget", CheckSome(FALSE)),
      UiMessage(warning_checkbox, "FromWidget", OtherData) }

\* HandleCheckChanged without the test of the direction.
HandleCheckChangedAnyDirection(message, checkbox, checked) ==
    IF message.destination = checkbox
    THEN IF message.data.check = << >> THEN FALSE ELSE message.data.check[1]
    ELSE checked

\* handle_check_changed: the new value of one boolean.
HandleCheckChanged(message, checkbox, checked) ==
    IF /\ message.destination = checkbox
       /\ message.direction = "FromWidget"
    THEN \* check.map_or(false, |c| c)
         IF message.data.check = << >> THEN FALSE ELSE message.data.check[1]
    ELSE checked

IsCheckBoxMessage(message) == message.data.type = "CheckBoxMessage"

\* handle_ui_message: the filter after the message.
HandleUiMessage(message, F) ==
    IF IsCheckBoxMessage(message)
    THEN [ info    |-> HandleCheckChanged(message, info_checkbox, F.info),
           warning |-> HandleCheckChanged(message, warning_checkbox, F.warning),
           error   |-> HandleCheckChanged(message, error_checkbox, F.error),
           engine  |-> HandleCheckChanged(message, engine_checkbox, F.engine),
           game    |-> HandleCheckChanged(message, game_checkbox, F.game) ]
    ELSE F

\* handle_ui_message: its return value.
HandleUiMessageResult(message) == IsCheckBoxMessage(message)

----------------------------------------------------------------------------
(* The rows: the widget part of update_log_message_model. *)

Digit == << "0", "1", "2", "3", "4", "5", "6", "7", "8", "9" >>

\* The decimal digits of a count, as format!("{}") writes them.
RECURSIVE Decimal(_)
Decimal(n) ==
    IF n < 10 THEN << Digit[n + 1] >>
    ELSE Decimal(n \div 10) \o << Digit[(n % 10) + 1] >>

\* `if count > 1 { format!("{} (x{})", message.1, count) } else { message.1.clone() }`
RowText(item) ==
    IF item.count > 1
    THEN item.content \o << " ", "(", "x" >> \o Decimal(item.count) \o << ")" >>
    ELSE item.content

\* The widget built for the item at `index` (from 0) of the enumeration.
BuildRow(index, item) ==
    [ text |-> RowText(item),
      background |-> IF index % 2 = 0 THEN "BRUSH_LIGHT" ELSE "BRUSH_DARK",
      foreground |-> IF item.kind = "Information" THEN "BRUSH_INFORMATION"
                     ELSE IF item.kind = "Warning" THEN "BRUSH_WARNING"
                     ELSE "BRUSH_ERROR" ]

\* The pool of the UI hands out the lowest free index past the widgets of new().
FreeHandle(used) ==
    CHOOSE h \in (log_stack_panel + 1)..(log_stack_panel + 1 + Cardinality(used)) :
        /\ h \notin used
        /\ \A k \in (log_stack_panel + 1)..(h - 1) : k \in used

\* The handles of n widgets built one after the other.
RECURSIVE BuildHandles(_, _)
BuildHandles(used, n) ==
    IF n = 0 THEN << >>
    ELSE LET h == FreeHandle(used)
         IN  << h >> \o BuildHandles(used \cup { h }, n - 1)

\* RowMessages that sends no remove for the rows shown.
RowMessagesWithoutRemove(kids, handles) ==
    [ i \in 1..Len(handles) |-> UiMessage(handles[i], "ToWidget", LinkData) ]

\* The messages update_log_message_model sends: a remove for every child of
\* log_stack_panel, then a link to log_stack_panel for every row built.
RowMessages(kids, handles) ==
    [ i \in 1..Len(kids) |-> UiMessage(kids[i], "ToWidget", RemoveData) ]
    \o [ i \in 1..Len(handles) |-> UiMessage(handles[i], "ToWidget", LinkData) ]

\* The pool after the rows of `items` were built under `handles`.
BuiltNodes(pool, handles, items) ==
    [ h \in DOMAIN pool \cup { handles[i] : i \in 1..Len(handles) } |->
        IF h \in DOMAIN pool THEN pool[h]
        ELSE LET i == CHOOSE i \in 1..Len(handles) : handles[i] = h
             IN  BuildRow(i - 1, items[i]) ]

\* What poll_message does with a message before it returns it: a remove drops
\* the widget from the pool and from its parent, a link makes it the last
\* child of log_stack_panel; a message to a dead widget is discarded.
PolledNodes(message, pool) ==
    IF message.data.type = "WidgetMessage::Remove" /\ message.destination \in DOMAIN pool
    THEN [ h \in DOMAIN pool \ { message.destination } |-> pool[h] ]
    ELSE pool

PolledChildren(message, pool, kids) ==
    IF message.destination \notin DOMAIN pool THEN kids
    ELSE IF message.data.type = "WidgetMessage::Remove"
         THEN SelectSeq(kids, LAMBDA h : h # message.destination)
    ELSE IF message.data.type = "WidgetMessage::LinkWith"
         THEN Append(SelectSeq(kids, LAMBDA h : h # message.destination),
                     message.destination)
    ELSE kids

\* update_log_message_model, as a step.
update_log_message_model ==
    LET items == Derive(messages_from_game, messages_from_engine, CurrentFilter)
        handles == BuildHandles(DOMAIN nodes, Len(items))
    IN  /\ view' = items
        /\ nodes' = BuiltNodes(nodes, handles, items)
        /\ ui_queue' = ui_queue \o RowMessages(children, handles)
        /\ model_updated' = TRUE
        /\ UNCHANGED children

\* RequiresModelUpdate that forgets the result of poll_ui_messages.
RequiresModelUpdateReceivedOnly(received, requires_update) == received

\* The condition under which update() calls update_log_message_model.
RequiresModelUpdate(received, requires_update) == received \/ requires_update

----------------------------------------------------------------------------
(* The state after LogChildOsWindow::new. *)

Init ==
    /\ log_message_receiver = << >>
    /\ message_receiver = << >>
    /\ ui_queue = << >>
    /\ messages_from_engine = << >>
    /\ messages_from_game = << >>
    /\ info_checked = TRUE
    /\ warning_checked = TRUE
    /\ error_checked = TRUE
    /\ engine_checked = TRUE
    /\ game_checked = TRUE
    /\ nodes = [ h \in {} |-> 0 ]
    /\ children = << >>
    /\ view = << >>
    /\ pc = "idle"
    /\ received_anything = FALSE
    /\ message_model_requires_update = FALSE
    /\ routed_engine = << >>
    /\ routed_game = << >>
    /\ filter_changed = FALSE
    /\ model_updated = FALSE
    /\ n_events = 0
    /\ connected = TRUE

rings == << messages_from_engine, messages_from_game, routed_engine, routed_game >>
filters == << info_checked, warning_checked, error_checked, engine_checked, game_checked >>
widgets == << nodes, children >>
locals == << received_anything, message_model_requires_update >>
history == << filter_changed, model_updated >>

----------------------------------------------------------------------------
(* The environment. *)

\* A producer thread sends a record, between two ticks or while update() drains
\* the channel. (A send during a later step of update() is read by the next
\* tick only, like a send made after update() has returned.)
ProducerSend ==
    /\ connected
    /\ pc \in { "idle", "drain" }
    /\ n_events < MaxEvents
    /\ \E m \in LogInputs :
          log_message_receiver' = Append(log_message_receiver, m)
    /\ n_events' = n_events + 1
    /\ UNCHANGED << message_receiver, ui_queue, rings, filters, widgets, view, pc,
                    locals, history, connected >>

\* The widget system queues a UI message; it runs on the thread of update(),
\* hence between two ticks.
UiPost ==
    /\ pc = "idle"
    /\ n_events < MaxEvents
    /\ \E m \in UiInputs : ui_queue' = Append(ui_queue, m)
    /\ n_events' = n_events + 1
    /\ UNCHANGED << log_message_receiver, message_receiver, rings, filters, widgets,
                    view, pc, locals, history, connected >>

AuxInputs == { "Exit", "Other" }

\* A message is sent through message_sender.
AuxSend ==
    /\ pc = "idle"
    /\ n_events < MaxEvents
    /\ \E m \in AuxInputs : message_receiver' = Append(message_receiver, m)
    /\ n_events' = n_events + 1
    /\ UNCHANGED << log_message_receiver, ui_queue, rings, filters, widgets, view, pc,
                    locals, history, connected >>

\* The last Sender of the log channel is dropped. The records already sent
\* stay in the channel: try_recv returns them before it reports the hang-up.
Disconnect ==
    /\ connected
    /\ pc \in { "idle", "drain" }
    /\ n_events < MaxEvents
    /\ connected' = FALSE
    /\ n_events' = n_events + 1
    /\ UNCHANGED << log_message_receiver, message_receiver, ui_queue, rings, filters,
                    widgets, view, pc, locals, history >>

----------------------------------------------------------------------------
(* update(): one tick, step by step. *)

\* Entry of update() up to `let mut received_anything = false`.
UpdateBegin ==
    /\ pc = "idle"
    /\ pc' = "drain"
    /\ received_anything' = FALSE
    /\ message_model_requires_update' = FALSE
    /\ filter_changed' = FALSE
    /\ model_updated' = FALSE
    /\ UNCHANGED << log_message_receiver, message_receiver, ui_queue, rings, filters,
                    widgets, view, n_events, connected >>

\* One iteration of `while let Ok(mut log_message) = try_recv()`.
ReceiveLogMessage ==
    /\ pc = "drain"
    /\ log_message_receiver # << >>
    /\ LET log_message == Head(log_message_receiver)
       IN  /\ log_message_receiver' = Tail(log_message_receiver)
           /\ received_anything' = TRUE
           /\ IF Contains(log_message.content)
              THEN LET stored == [ log_message EXCEPT !.content = Replace(@) ]
                   IN  /\ messages_from_game' = PushBounded(messages_from_game, stored)
                       /\ routed_game' = Append(routed_game, stored)
                       /\ UNCHANGED << messages_from_engine, routed_engine >>
              ELSE /\ messages_from_engine' = PushBounded(messages_from_engine, log_message)
                   /\ routed_engine' = Append(routed_engine, log_message)
                   /\ UNCHANGED << messages_from_game, routed_game >>
    /\ UNCHANGED << message_receiver, ui_queue, filters, widgets, view, pc,
                    message_model_requires_update, history, n_events, connected >>

\* try_recv() returns Err, the channel being empty (Empty while a Sender is
\* alive, Disconnected after the last one was dropped): the loop ends and
\* poll_ui_messages begins.
ReceiveDone ==
    /\ pc = "drain"
    /\ log_message_receiver = << >>
    /\ pc' = "poll"
    /\ message_model_requires_update' = FALSE
    /\ UNCHANGED << log_message_receiver, message_receiver, ui_queue, rings, filters,
                    widgets, view, received_anything, history, n_events, connected >>

\* One iteration of `while let Some(message) = poll_message()`.
PollUiMessage ==
    /\ pc = "poll"
    /\ ui_queue # << >>
    /\ LET message == Head(ui_queue)
           F == HandleUiMessage(message, CurrentFilter)
       IN  /\ ui_queue' = Tail(ui_queue)
           /\ nodes' = PolledNodes(message, nodes)
           /\ children' = PolledChildren(message, nodes, children)
           /\ info_checked' = F.info
           /\ warning_checked' = F.warning
           /\ error_checked' = F.error
           /\ engine_checked' = F.engine
           /\ game_checked' = F.game
           /\ message_model_requires_update' =
                 (message_model_requires_update \/ HandleUiMessageResult(message))
           /\ filter_changed' = (filter_changed \/ F # CurrentFilter)
    /\ UNCHANGED << log_message_receiver, message_receiver, rings, view, pc,
                    received_anything, model_updated, n_events, connected >>

\* poll_message() returns None: poll_ui_messages returns.
PollDone ==
    /\ pc = "poll"
    /\ ui_queue = << >>
    /\ pc' = "decide"
    /\ UNCHANGED << log_message_receiver, message_receiver, ui_queue, rings, filters,
                    widgets, view, locals, history, n_events, connected >>

\* `if received_anything || message_model_requires_update { update_log_message_model() }`
UpdateLogMessageModel ==
    /\ pc = "decide"
    /\ IF RequiresModelUpdate(received_anything, message_model_requires_update)
       THEN update_log_message_model
       ELSE UNCHANGED << ui_queue, widgets, view, model_updated >>
    /\ pc' = "engine"
    /\ UNCHANGED << log_message_receiver, message_receiver, rings, filters, locals,
                    filter_changed, n_events, connected >>

\* `while lag >= FIXED_TIMESTEP { engine.update(..) }`
EngineUpdate ==
    /\ pc = "engine"
    /\ pc' = "aux"
    /\ UNCHANGED << log_message_receiver, message_receiver, ui_queue, rings, filters,
                    widgets, view, locals, history, n_events, connected >>

\* One iteration of `while let Ok(message) = self.message_receiver.try_recv()`.
ReceiveMessage ==
    /\ pc = "aux"
    /\ message_receiver # << >>
    /\ message_receiver' = Tail(message_receiver)
    /\ pc' = IF Head(message_receiver) = "Exit" THEN "panicked" ELSE "aux"
    /\ UNCHANGED << log_message_receiver, ui_queue, rings, filters, widgets, view,
                    locals, history, n_events, connected >>

\* The auxiliary channel is empty: request_redraw, and update() returns.
RequestRedraw ==
    /\ pc = "aux"
    /\ message_receiver = << >>
    /\ pc' = "idle"
    /\ UNCHANGED << log_message_receiver, message_receiver, ui_queue, rings, filters,
                    widgets, view, locals, history, n_events, connected >>

Next ==
    \/ ProducerSend
    \/ UiPost
    \/ AuxSend
    \/ UpdateBegin
    \/ ReceiveLogMessage
    \/ ReceiveDone
    \/ PollUiMessage
    \/ PollDone
    \/ UpdateLogMessageModel
    \/ EngineUpdate
    \/ ReceiveMessage
    \/ RequestRedraw

Spec == Init /\ [][Next]_vars

----------------------------------------------------------------------------
(* update_log_message_model called on its own, from every pair of rings    *)
(* within the bounds and every value of the five filters.                   *)

InitDerive ==
    /\ \E n \in 0..MaxDeriveRecords :
         \E g \in 0..n :
            /\ g <= max_messages
            /\ n - g <= max_messages
            /\ messages_from_game \in [ 1..g -> DeriveRecords ]
            /\ messages_from_engine \in [ 1..(n - g) -> DeriveRecords ]
    /\ routed_game = messages_from_game
    /\ routed_engine = messages_from_engine
    /\ info_checked \in BOOLEAN
    /\ warning_checked \in BOOLEAN
    /\ error_checked \in BOOLEAN
    /\ engine_checked \in BOOLEAN
    /\ game_checked \in BOOLEAN
    /\ log_message_receiver = << >>
    /\ message_receiver = << >>
    /\ ui_queue = << >>
    /\ nodes = [ h \in {} |-> 0 ]
    /\ children = << >>
    /\ view = << >>
    /\ pc = "call"
    /\ received_anything = FALSE
    /\ message_model_requires_update = FALSE
    /\ filter_changed = FALSE
    /\ model_updated = FALSE
    /\ n_events = 0
    /\ connected = TRUE

CallUpdateLogMessageModel ==
    /\ pc = "call"
    /\ update_log_message_model
    /\ pc' = "return"
    /\ UNCHANGED << log_message_receiver, message_receiver, rings, filters, locals,
                    filter_changed, n_events, connected >>

NextDerive == CallUpdateLogMessageModel

SpecDerive == InitDerive /\ [][NextDerive]_vars

----------------------------------------------------------------------------
(* The window with producers that send records and then hang up, and with  *)
(* UI messages, before the hang-up and after it.                            *)

NextClosed ==
    \/ ProducerSend
    \/ Disconnect
    \/ UiPost
    \/ UpdateBegin
    \/ ReceiveLogMessage
    \/ ReceiveDone
    \/ PollUiMessage
    \/ PollDone
    \/ UpdateLogMessageModel
    \/ EngineUpdate
    \/ RequestRedraw

SpecClosed == Init /\ [][NextClosed]_vars

----------------------------------------------------------------------------
(* The window with producers that never stop sending. The number of sends  *)
(* is not bounded, the number of records in flight is; the history of the  *)
(* rings is not kept. The thread that runs update() is never stopped for   *)
(* ever inside update(): weak fairness of its steps.                       *)

\* Records of the burst: one for the Engine ring, one for the Game ring.
BurstInputs ==
    { LogMessage("Information", TextA),
      LogMessage("Information", Marker \o TextA) }

\* Sender::send, with no bound on the number of sends.
ProducerBurst ==
    /\ connected
    /\ pc \in { "idle", "drain" }
    /\ Len(log_message_receiver) < MaxChannel
    /\ \E m \in BurstInputs :
          log_message_receiver' = Append(log_message_receiver, m)
    /\ UNCHANGED << message_receiver, ui_queue, rings, filters, widgets, view, pc,
                    locals, history, n_events, connected >>

\* One iteration of `while let Ok(mut log_message) = try_recv()`, the history
\* of the rings left as it is.
ReceiveLogMessageBurst ==
    /\ pc = "drain"
    /\ log_message_receiver # << >>
    /\ LET log_message == Head(log_message_receiver)
       IN  /\ log_message_receiver' = Tail(log_message_receiver)
           /\ received_anything' = TRUE
           /\ IF Contains(log_message.content)
              THEN LET stored == [ log_message EXCEPT !.content = Replace(@) ]
                   IN  /\ messages_from_game' = PushBounded(messages_from_game, stored)
                       /\ UNCHANGED messages_from_engine
              ELSE /\ messages_from_engine' = PushBounded(messages_from_engine, log_message)
                   /\ UNCHANGED messages_from_game
    /\ UNCHANGED << message_receiver, ui_queue, routed_engine, routed_game, filters,
                    widgets, view, pc, message_model_requires_update, history, n_events,
                    connected >>

\* The steps of update() past its entry.
UpdateStep ==
    \/ ReceiveLogMessageBurst
    \/ ReceiveDone
    \/ PollUiMessage
    \/ PollDone
    \/ UpdateLogMessageModel
    \/ EngineUpdate
    \/ RequestRedraw

NextBurst ==
    \/ ProducerBurst
    \/ UpdateBegin
    \/ UpdateStep

SpecBurst == Init /\ [][NextBurst]_vars /\ WF_vars(UpdateStep)

----------------------------------------------------------------------------
(* Several producers on the log channel. Every record carries, beside the  *)
(* kind and the content of a LogMessage, who sent it, its number among the *)
(* records of its producer, and the number of its send among all sends.    *)

Producers == { "engine_log", "game_forwarder" }

\* Contents the producers send: one without the marker, one with it.
ProducerTexts == { TextA, Marker \o TextA }

\* The records `producer` has sent so far.
SentBy(producer) ==
    Cardinality({ i \in DOMAIN log_message_receiver :
                    log_message_receiver[i].producer = producer })
    + Cardinality({ i \in DOMAIN routed_engine : routed_engine[i].producer = producer })
    + Cardinality({ i \in DOMAIN routed_game : routed_game[i].producer = producer })

\* Sender::send by one of the producers; the channel keeps the order of the sends.
ProducerSendTagged ==
    /\ connected
    /\ pc \in { "idle", "drain" }
    /\ n_events < MaxEvents
    /\ \E producer \in Producers, content \in ProducerTexts :
          log_message_receiver' =
              Append(log_message_receiver,
                     [ kind |-> "Information", content |-> content,
                       producer |-> producer, seq |-> SentBy(producer) + 1,
                       sent |-> n_events + 1 ])
    /\ n_events' = n_events + 1
    /\ UNCHANGED << message_receiver, ui_queue, rings, filters, widgets, view, pc,
                    locals, history, connected >>

NextProducers ==
    \/ ProducerSendTagged
    \/ UpdateBegin
    \/ ReceiveLogMessage
    \/ ReceiveDone
    \/ PollUiMessage
    \/ PollDone
    \/ UpdateLogMessageModel
    \/ EngineUpdate
    \/ RequestRedraw

SpecProducers == Init /\ [][NextProducers]_vars

----------------------------------------------------------------------------
(* update_log_message_model called twice on the same rings and filters,    *)
(* the UI polling the messages of the first call before the second call,   *)
(* or some of them, or none.                                                *)

\* poll_message takes one message of the queue and applies it to the widgets.
SinkPoll ==
    /\ pc # "call"
    /\ ui_queue # << >>
    /\ ui_queue' = Tail(ui_queue)
    /\ nodes' = PolledNodes(Head(ui_queue), nodes)
    /\ children' = PolledChildren(Head(ui_queue), nodes, children)
    /\ UNCHANGED << log_message_receiver, message_receiver, rings, filters, view, pc,
                    locals, history, n_events, connected >>

\* The second call, every message of the first call having been polled.
CallAgainAfterSink ==
    /\ pc = "return"
    /\ ui_queue = << >>
    /\ update_log_message_model
    /\ pc' = "return_after_sink"
    /\ UNCHANGED << log_message_receiver, message_receiver, rings, filters, locals,
                    filter_changed, n_events, connected >>

\* The second call, messages of the first call still waiting in the queue.
CallAgainBeforeSink ==
    /\ pc = "return"
    /\ ui_queue # << >>
    /\ update_log_message_model
    /\ pc' = "return_before_sink"
    /\ UNCHANGED << log_message_receiver, message_receiver, rings, filters, locals,
                    filter_changed, n_events, connected >>

NextRender ==
    \/ CallUpdateLogMessageModel
    \/ SinkPoll
    \/ CallAgainAfterSink
    \/ CallAgainBeforeSink

SpecRender == InitDerive /\ [][NextRender]_vars

----------------------------------------------------------------------------
(* handle_ui_message called on its own, from the state after new(), with   *)
(* every message of the product of destinations, directions and payloads.  *)

UiDestinations ==
    { info_checkbox, warning_checkbox, error_checkbox, engine_checkbox, game_checkbox,
      log_stack_panel }

UiDirections == { "FromWidget", "ToWidget" }

UiPayloads == { CheckSome(TRUE), CheckSome(FALSE), CheckNone, OtherData }

AllUiMessages ==
    { UiMessage(dest, dir, data) :
        dest \in UiDestinations, dir \in UiDirections, data \in UiPayloads }

\* The caller of handle_ui_message has a message at hand.
UiDeliver ==
    /\ pc = "idle"
    /\ ui_queue = << >>
    /\ \E m \in AllUiMessages : ui_queue' = << m >>
    /\ UNCHANGED << log_message_receiver, message_receiver, rings, filters, widgets,
                    view, pc, locals, history, n_events, connected >>

\* handle_ui_message(&message); its result is kept in message_model_requires_update.
CallHandleUiMessage ==
    /\ pc = "idle"
    /\ ui_queue # << >>
    /\ LET message == Head(ui_queue)
           F == HandleUiMessage(message, CurrentFilter)
       IN  /\ ui_queue' = Tail(ui_queue)
           /\ info_checked' = F.info
           /\ warning_checked' = F.warning
           /\ error_checked' = F.error
           /\ engine_checked' = F.engine
           /\ game_checked' = F.game
           /\ message_model_requires_update' = HandleUiMessageResult(message)
    /\ UNCHANGED << log_message_receiver, message_receiver, rings, widgets, view, pc,
                    received_anything, history, n_events, connected >>

NextHandle ==
    \/ UiDeliver
    \/ CallHandleUiMessage

SpecHandle == Init /\ [][NextHandle]_vars

----------------------------------------------------------------------------
(* What the claims speak of, stated on the rings and the filters and not   *)
(* by the deriver's operators.                                              *)

KindGate(kind) ==
    \/ kind = "Information" /\ info_checked
    \/ kind = "Warning" /\ warning_checked
    \/ kind = "Error" /\ error_checked

AllFiltersOn ==
    info_checked /\ warning_checked /\ error_checked /\ engine_checked /\ game_checked

SameKey(a, b) == a.kind = b.kind /\ a.content = b.content

\* The positions of the admissible records of each ring.
AdmissibleGame ==
    IF game_checked
    THEN { i \in DOMAIN messages_from_game : KindGate(messages_from_game[i].kind) }
    ELSE {}

AdmissibleEngine ==
    IF engine_checked
    THEN { i \in DOMAIN messages_from_engine : KindGate(messages_from_engine[i].kind) }
    ELSE {}

\* The number of admissible records with the key of `item`, over both rings.
AdmissibleCount(item) ==
    Cardinality({ i \in AdmissibleGame : SameKey(messages_from_game[i], item) })
    + Cardinality({ i \in AdmissibleEngine : SameKey(messages_from_engine[i], item) })

\* The number of records with the key of `item` in the rings whose source gate is on.
SourceGatedCount(item) ==
    (IF game_checked
     THEN Cardinality({ i \in DOMAIN messages_from_game :
                          SameKey(messages_from_game[i], item) })
     ELSE 0)
    + (IF engine_checked
       THEN Cardinality({ i \in DOMAIN messages_from_engine :
                            SameKey(messages_from_engine[i], item) })
       ELSE 0)

RECURSIVE SumCounts(_)
SumCounts(items) ==
    IF items = << >> THEN 0 ELSE Head(items).count + SumCounts(Tail(items))

\* The rows of the view that show the key of `record`.
RowsOf(record) == { j \in DOMAIN view : SameKey(view[j], record) }

\* The positions of the key of `item` in a ring; 0 stands for none.
Occurrences(ring, item) == { i \in DOMAIN ring : SameKey(ring[i], item) }

FirstOccurrence(ring, item) ==
    IF Occurrences(ring, item) = {} THEN 0
    ELSE CHOOSE i \in Occurrences(ring, item) :
            \A j \in Occurrences(ring, item) : i <= j

LastOccurrence(ring, item) ==
    IF Occurrences(ring, item) = {} THEN 0
    ELSE CHOOSE i \in Occurrences(ring, item) :
            \A j \in Occurrences(ring, item) : j <= i

\* The ring that holds the records when the other one is empty.
OnlyRing ==
    IF messages_from_game = << >> THEN messages_from_engine ELSE messages_from_game

OneRingEmpty == messages_from_game = << >> \/ messages_from_engine = << >>

InGame(item) == Occurrences(messages_from_game, item) # {}
InEngine(item) == Occurrences(messages_from_engine, item) # {}

----------------------------------------------------------------------------
\* C1. Fold soundness: once update_log_message_model has returned, the counts
\* of the rows add up to the number of admissible records of the two rings
\* (kind gate on and source gate on), and every admissible record has its key
\* shown by exactly one row.
C1_FoldSoundness ==
    pc = "return" =>
        /\ SumCounts(view) = Cardinality(AdmissibleGame) + Cardinality(AdmissibleEngine)
        /\ \A i \in AdmissibleGame :
              Cardinality(RowsOf(messages_from_game[i])) = 1
        /\ \A i \in AdmissibleEngine :
              Cardinality(RowsOf(messages_from_engine[i])) = 1

\* A fold over both rings with some records filtered out: a row counts two or
\* more records, another row exists, and some retained record is not admissible.
C1_Witness ==
    /\ pc = "return"
    /\ Len(view) >= 2
    /\ \E j \in DOMAIN view : view[j].count >= 2
    /\ Cardinality(AdmissibleGame) + Cardinality(AdmissibleEngine)
         < Len(messages_from_game) + Len(messages_from_engine)
    /\ AdmissibleGame # {}
    /\ AdmissibleEngine # {}

----------------------------------------------------------------------------
\* C2 as claimed. Order within one source: with one ring empty and all five
\* filters on, the rows stand top to bottom in the order in which the FIRST
\* (oldest retained) occurrences of their keys arrived in the other ring.
C2_FirstOccurrenceOrder ==
    (pc = "return" /\ AllFiltersOn /\ OneRingEmpty) =>
        \A j, k \in DOMAIN view :
            j < k => FirstOccurrence(OnlyRing, view[j]) < FirstOccurrence(OnlyRing, view[k])

\* C2 as amended. With one ring empty and all five filters on, the rows stand
\* top to bottom in the order in which the LAST (newest retained) occurrences
\* of their keys arrived in the other ring: a key that is repeated later moves
\* below every key whose last occurrence arrived before the repeat.
C2_LastOccurrenceOrder ==
    (pc = "return" /\ AllFiltersOn /\ OneRingEmpty) =>
        \A j, k \in DOMAIN view :
            j < k => /\ LastOccurrence(OnlyRing, view[j]) > 0
                     /\ LastOccurrence(OnlyRing, view[j]) < LastOccurrence(OnlyRing, view[k])

\* One ring holds a key, then another key, then the first key again, and the
\* repeated key is shown below the other.
C2_Witness ==
    /\ pc = "return"
    /\ AllFiltersOn
    /\ OneRingEmpty
    /\ \E j, k \in DOMAIN view :
          /\ j < k
          /\ view[k].count >= 2
          /\ FirstOccurrence(OnlyRing, view[k]) < FirstOccurrence(OnlyRing, view[j])

----------------------------------------------------------------------------
\* C3 as claimed. Order across sources: with both source gates on, the row of
\* a key retained in the Game ring stands above the row of a key that occurs
\* in the Engine ring only.
C3_GameAboveEngine ==
    (pc = "return" /\ game_checked /\ engine_checked) =>
        \A j, k \in DOMAIN view :
            (InGame(view[j]) /\ InEngine(view[k]) /\ ~InGame(view[k])) => j < k

\* C3 as amended. With both source gates on, the row of a key that occurs in
\* the Engine ring only stands above the row of every key retained in the
\* Game ring.
C3_EngineOnlyAboveGame ==
    (pc = "return" /\ game_checked /\ engine_checked) =>
        \A j, k \in DOMAIN view :
            (InGame(view[j]) /\ InEngine(view[k]) /\ ~InGame(view[k])) => k < j

\* Both gates on, the view shows a key of the Game ring and a key that only
\* the Engine ring holds.
C3_Witness ==
    /\ pc = "return"
    /\ game_checked
    /\ engine_checked
    /\ \E j, k \in DOMAIN view :
          InGame(view[j]) /\ InEngine(view[k]) /\ ~InGame(view[k])

----------------------------------------------------------------------------
\* C7. Filter gating: once update_log_message_model has returned, every row
\* has a kind whose gate is on, no row counts more records than the rings
\* whose source gate is on hold of its key, and the view is empty when no
\* retained record is admissible.
C7_FilterGating ==
    pc = "return" =>
        /\ \A j \in DOMAIN view :
              /\ KindGate(view[j].kind)
              /\ view[j].count <= SourceGatedCount(view[j])
        /\ (AdmissibleGame = {} /\ AdmissibleEngine = {}) => view = << >>

\* The Game gate and the Warning gate are off, both rings hold records, the
\* Engine ring holds a Warning, and rows are shown.
C7_Witness ==
    /\ pc = "return"
    /\ ~game_checked
    /\ engine_checked
    /\ ~warning_checked
    /\ messages_from_game # << >>
    /\ \E i \in DOMAIN messages_from_engine : messages_from_engine[i].kind = "Warning"
    /\ view # << >>

----------------------------------------------------------------------------
\* C8. Fold key: once update_log_message_model has returned, the rows show
\* exactly the (kind, content) pairs of the admissible records, no two rows
\* show the same pair, and the count of a row is the number of admissible
\* records of its pair over both rings; equal contents of different kinds are
\* different rows.
C8_FoldKey ==
    pc = "return" =>
        /\ { << view[j].kind, view[j].content >> : j \in DOMAIN view }
             = { << messages_from_game[i].kind, messages_from_game[i].content >> :
                    i \in AdmissibleGame }
               \cup { << messages_from_engine[i].kind, messages_from_engine[i].content >> :
                         i \in AdmissibleEngine }
        /\ \A j, k \in DOMAIN view : SameKey(view[j], view[k]) => j = k
        /\ \A j \in DOMAIN view : view[j].count = AdmissibleCount(view[j])

\* A pair retained in both rings is one row counting both, and the same
\* content under another kind is a row of its own.
C8_Witness ==
    /\ pc = "return"
    /\ \E j, k \in DOMAIN view :
          /\ view[j].content = view[k].content
          /\ view[j].kind # view[k].kind
          /\ InGame(view[j])
          /\ InEngine(view[j])
          /\ view[j].count >= 2

----------------------------------------------------------------------------
\* C4. Marker stripping: whenever update() receives a record whose content
\* contains "[__GAME__]", the step leaves the Engine ring as it was and puts
\* the record at the tail of the Game ring with its kind and with a content
\* in which the marker does not occur.
C4_MarkerStripping ==
    [][ ( /\ pc = "drain"
          /\ log_message_receiver # << >>
          /\ log_message_receiver' = Tail(log_message_receiver)
          /\ Contains(Head(log_message_receiver).content) )
        => ( /\ messages_from_engine' = messages_from_engine
             /\ messages_from_game' # << >>
             /\ messages_from_game'[Len(messages_from_game')].kind
                  = Head(log_message_receiver).kind
             /\ ~Contains(messages_from_game'[Len(messages_from_game')].content) ) ]_vars

----------------------------------------------------------------------------
\* C5. Ring bound: in every state the Engine ring and the Game ring hold at
\* most max_messages records each.
C5_RingBound ==
    /\ Len(messages_from_engine) <= max_messages
    /\ Len(messages_from_game) <= max_messages

\* More than max_messages records were pushed to a ring, which is full.
C5_Witness ==
    \/ Len(routed_engine) > max_messages /\ Len(messages_from_engine) = max_messages
    \/ Len(routed_game) > max_messages /\ Len(messages_from_game) = max_messages

----------------------------------------------------------------------------
\* The last n elements of a sequence.
LastN(s, n) == SubSeq(s, Len(s) - n + 1, Len(s))

Min(a, b) == IF a <= b THEN a ELSE b

\* C6. FIFO eviction: after n records were routed to a ring, the ring holds
\* the last min(n, max_messages) of them in the order of their arrival.
C6_FifoEviction ==
    /\ messages_from_engine
         = LastN(routed_engine, Min(Len(routed_engine), max_messages))
    /\ messages_from_game
         = LastN(routed_game, Min(Len(routed_game), max_messages))

\* A ring evicted its oldest record, which differs from the record that
\* became the oldest.
C6_Witness ==
    \/ /\ Len(routed_engine) > max_messages
       /\ routed_engine[1] # routed_engine[2]
    \/ /\ Len(routed_game) > max_messages
       /\ routed_game[1] # routed_game[2]

----------------------------------------------------------------------------
\* C9. View freshness: whenever update() has returned, the rows built last
\* are the rows derived from the rings and filters as they are now, and a
\* tick that received a record or changed a filter has rebuilt the rows.
C9_ViewFreshness ==
    pc = "idle" =>
        /\ view = Derive(messages_from_game, messages_from_engine, CurrentFilter)
        /\ (received_anything \/ filter_changed) => model_updated

\* A tick that received records and changed a filter has returned, and its
\* rows differ from the rows of all filters on.
C9_Witness ==
    /\ pc = "idle"
    /\ received_anything
    /\ filter_changed
    /\ ~AllFiltersOn
    /\ view # << >>
    /\ view # Derive(messages_from_game, messages_from_engine,
                     [ info |-> TRUE, warning |-> TRUE, error |-> TRUE,
                       engine |-> TRUE, game |-> TRUE ])

----------------------------------------------------------------------------
\* C10. Rederivation trigger: past the decision of update(), the rows were
\* rebuilt in this tick if and only if the tick received a record or a UI
\* message changed one of the five filter booleans.
C10_RederivationTrigger ==
    pc \in { "engine", "aux" } =>
        (model_updated <=> (received_anything \/ filter_changed))

----------------------------------------------------------------------------
\* The message is a CheckBoxMessage sent FromWidget by `checkbox`.
CheckChangeOf(message, checkbox) ==
    /\ message.data.type = "CheckBoxMessage"
    /\ message.direction = "FromWidget"
    /\ message.destination = checkbox

\* C11. Filter mutation guard: the five booleans are true after new(), and a
\* step changes one of them only when handle_ui_message is given a
\* CheckBoxMessage with direction FromWidget whose destination is the check
\* box of that boolean, the four other booleans keeping their values; a
\* message of another direction, destination or payload changes none.
C11_FilterMutationGuard ==
    /\ << info_checked, warning_checked, error_checked, engine_checked, game_checked >>
         = << TRUE, TRUE, TRUE, TRUE, TRUE >>
    /\ [][ /\ info_checked' # info_checked =>
                 /\ ui_queue # << >>
                 /\ CheckChangeOf(Head(ui_queue), info_checkbox)
                 /\ UNCHANGED << warning_checked, error_checked, engine_checked,
                                 game_checked >>
           /\ warning_checked' # warning_checked =>
                 /\ ui_queue # << >>
                 /\ CheckChangeOf(Head(ui_queue), warning_checkbox)
                 /\ UNCHANGED << info_checked, error_checked, engine_checked,
                                 game_checked >>
           /\ error_checked' # error_checked =>
                 /\ ui_queue # << >>
                 /\ CheckChangeOf(Head(ui_queue), error_checkbox)
                 /\ UNCHANGED << info_checked, warning_checked, engine_checked,
                                 game_checked >>
           /\ engine_checked' # engine_checked =>
                 /\ ui_queue # << >>
                 /\ CheckChangeOf(Head(ui_queue), engine_checkbox)
                 /\ UNCHANGED << info_checked, warning_checked, error_checked,
                                 game_checked >>
           /\ game_checked' # game_checked =>
                 /\ ui_queue # << >>
                 /\ CheckChangeOf(Head(ui_queue), game_checkbox)
                 /\ UNCHANGED << info_checked, warning_checked, error_checked,
                                 engine_checked >> ]_vars

\* handle_ui_message has returned true on a state in which the Information
\* and the Game booleans are off and the three others still on.
C11_Witness ==
    /\ ui_queue = << >>
    /\ message_model_requires_update
    /\ ~info_checked
    /\ ~game_checked
    /\ warning_checked
    /\ error_checked
    /\ engine_checked

----------------------------------------------------------------------------
\* C13 as claimed. View cardinality bound: once update_log_message_model has
\* returned, the view holds at most max_messages rows.
C13_ViewAtMostMax ==
    pc = "return" => Len(view) <= max_messages

\* C13 as amended. The view holds at most one row for each admissible record
\* of the two rings, hence at most 2 * max_messages rows.
C13_ViewAtMostRetained ==
    pc = "return" =>
        /\ Len(view) <= Cardinality(AdmissibleGame) + Cardinality(AdmissibleEngine)
        /\ Len(view) <= 2 * max_messages

\* Neither ring holds more than max_messages records, and the view shows more
\* than max_messages rows, some of the Game ring and some of the Engine ring.
C13_Witness ==
    /\ pc = "return"
    /\ Len(messages_from_game) <= max_messages
    /\ Len(messages_from_engine) <= max_messages
    /\ Len(view) > max_messages
    /\ \E j, k \in DOMAIN view : InGame(view[j]) /\ InEngine(view[k])

----------------------------------------------------------------------------
\* The rows of log_stack_panel, top to bottom.
RenderedRows == [ i \in 1..Len(children) |-> nodes[children[i]] ]

\* The rows one call of update_log_message_model builds for the view.
SingleRender == [ i \in 1..Len(view) |-> BuildRow(i - 1, view[i]) ]

\* C14. Idempotence of re-render: after two calls of update_log_message_model
\* on the same rings and filters, the messages of the first call polled
\* before the second call or not, and every message polled in the end,
\* log_stack_panel shows the rows of a single call, each of them once.
C14_RenderTwice ==
    (pc \in { "return_after_sink", "return_before_sink" } /\ ui_queue = << >>)
        => RenderedRows = SingleRender

----------------------------------------------------------------------------
\* C15. Rendered rows: whenever every UI message has been polled,
\* log_stack_panel has one child for each item of the view, in the order of
\* the view, and no widget of an earlier render is alive; the child of the
\* i-th item (from 0) has the Light background when i is even and the Dark
\* one when i is odd, the foreground of the kind of the item, and as text the
\* content of the item, followed by " (xCOUNT)" unless the count is 1.
C15_RenderedRows ==
    ui_queue = << >> =>
        /\ Len(children) = Len(view)
        /\ DOMAIN nodes = { children[i] : i \in 1..Len(children) }
        /\ \A i \in 0..(Len(view) - 1) :
              LET row == nodes[children[i + 1]]
                  item == view[i + 1]
              IN  /\ (i % 2 = 0) => row.background = "BRUSH_LIGHT"
                  /\ (i % 2 = 1) => row.background = "BRUSH_DARK"
                  /\ (item.kind = "Information") => row.foreground = "BRUSH_INFORMATION"
                  /\ (item.kind = "Warning") => row.foreground = "BRUSH_WARNING"
                  /\ (item.kind = "Error") => row.foreground = "BRUSH_ERROR"
                  /\ (item.count = 1) => row.text = item.content
                  /\ (item.count # 1) =>
                        row.text = item.content \o << " ", "(", "x" >>
                                     \o Decimal(item.count) \o << ")" >>

\* Every message is polled; two rows or more are shown, one of them counting
\* two records or more, and the rows were built while rows of an earlier
\* render were alive (a handle past the first Len(children) handles is in use).
C15_Witness ==
    /\ ui_queue = << >>
    /\ Len(children) >= 2
    /\ \E j \in DOMAIN view : view[j].count >= 2
    /\ \E j \in DOMAIN view : view[j].count = 1
    /\ \E i \in 1..Len(children) : children[i] > log_stack_panel + Len(children)

----------------------------------------------------------------------------
\* The records of a ring stand in the order of their sends on the channel,
\* and those of one producer in the order in which it sent them.
InSendOrder(ring) ==
    \A i, j \in DOMAIN ring :
        i < j => /\ ring[i].sent < ring[j].sent
                 /\ ring[i].producer = ring[j].producer => ring[i].seq < ring[j].seq

\* C16. Producer ordering: in every state, whatever the interleaving of the
\* sends of the producers and the steps of update(), two records retained in
\* the same ring stand in the order in which the channel delivered them, and
\* two records of the same producer in the order in which it sent them.
C16_ProducerOrdering ==
    /\ InSendOrder(messages_from_engine)
    /\ InSendOrder(messages_from_game)

\* A full ring that has evicted a record holds records of one producer with a
\* record of the other producer between them, and a further record was sent
\* while update() drains the channel.
C16_Witness ==
    /\ pc = "drain"
    /\ log_message_receiver # << >>
    /\ \/ /\ Len(routed_engine) > max_messages
           /\ messages_from_engine[1].producer = messages_from_engine[3].producer
           /\ messages_from_engine[1].producer # messages_from_engine[2].producer
       \/ /\ Len(routed_game) > max_messages
           /\ messages_from_game[1].producer = messages_from_game[3].producer
           /\ messages_from_game[1].producer # messages_from_game[2].producer

----------------------------------------------------------------------------
\* The step takes a record from the log channel.
Ingestion ==
    /\ pc = "drain"
    /\ log_message_receiver # << >>
    /\ log_message_receiver' = Tail(log_message_receiver)

\* No part of the text reads "[__GAME__]".
MarkerFree(s) ==
    \A i \in 1..Len(s) :
        \/ i + 9 > Len(s)
        \/ << s[i], s[i + 1], s[i + 2], s[i + 3], s[i + 4], s[i + 5], s[i + 6],
              s[i + 7], s[i + 8], s[i + 9] >>
             # << "[", "_", "_", "G", "A", "M", "E", "_", "_", "]" >>

\* C17. Ring frame: a step that changes a ring is the ingestion of a record
\* and changes one ring only; the ingestion of a record without the marker
\* leaves the Game ring as it was and puts the record, as it was sent, at the
\* tail of the Engine ring. Polling UI messages, changing a filter and
\* rebuilding the rows change no ring, and whenever update() has returned,
\* every retained record whose kind gate and source gate are on has a row.
C17_RingFrame ==
    /\ [][ /\ << messages_from_engine, messages_from_game >>'
                 # << messages_from_engine, messages_from_game >>
               => /\ Ingestion
                  /\ \/ messages_from_engine' = messages_from_engine
                     \/ messages_from_game' = messages_from_game
           /\ (Ingestion /\ MarkerFree(Head(log_message_receiver).content))
               => /\ messages_from_game' = messages_from_game
                  /\ messages_from_engine' # << >>
                  /\ messages_from_engine'[Len(messages_from_engine')]
                       = Head(log_message_receiver) ]_vars
    /\ [](pc = "idle" =>
            /\ \A i \in AdmissibleEngine : RowsOf(messages_from_engine[i]) # {}
            /\ \A i \in AdmissibleGame : RowsOf(messages_from_game[i]) # {})

\* update() has returned from a tick that received no record and in which
\* filters changed, all five being on now: both rings hold records, shown
\* again by the rows.
C17_Witness ==
    /\ pc = "idle"
    /\ ~received_anything
    /\ filter_changed
    /\ AllFiltersOn
    /\ messages_from_engine # << >>
    /\ messages_from_game # << >>
    /\ Len(view) >= 2

----------------------------------------------------------------------------
\* The value a CheckBoxMessage::Check carries, None standing for false.
CheckValue(message) ==
    IF message.data.check = << >> THEN FALSE ELSE message.data.check[1]

\* The (kind, content) pairs of the admissible records of the two rings.
AdmissibleKeys ==
    { << messages_from_game[i].kind, messages_from_game[i].content >> :
         i \in AdmissibleGame }
    \cup { << messages_from_engine[i].kind, messages_from_engine[i].content >> :
              i \in AdmissibleEngine }

\* After the hang-up, a polled check-box change is applied to its boolean,
\* and when update() has returned, a tick in which a filter changed has
\* rebuilt the rows, which show the admissible records retained.
FiltersLiveWhenClosed ==
    /\ [][ ( /\ ~connected
             /\ pc = "poll"
             /\ ui_queue # << >>
             /\ ui_queue' = Tail(ui_queue) )
           => LET message == Head(ui_queue)
              IN  /\ CheckChangeOf(message, info_checkbox)
                       => info_checked' = CheckValue(message)
                  /\ CheckChangeOf(message, warning_checkbox)
                       => warning_checked' = CheckValue(message)
                  /\ CheckChangeOf(message, error_checkbox)
                       => error_checked' = CheckValue(message)
                  /\ CheckChangeOf(message, engine_checkbox)
                       => engine_checked' = CheckValue(message)
                  /\ CheckChangeOf(message, game_checkbox)
                       => game_checked' = CheckValue(message) ]_vars
    /\ []((~connected /\ pc = "idle") =>
            /\ filter_changed => model_updated
            /\ { << view[j].kind, view[j].content >> : j \in DOMAIN view }
                 = AdmissibleKeys)

\* C18 as claimed. Channel closed is non-fatal: once the last Sender of the
\* log channel is dropped, no step changes a ring, check-box changes are
\* still applied, and a tick in which a filter changed rebuilds the rows
\* from the records retained.
C18_ClosedLeavesRings ==
    /\ [][ ~connected
           => UNCHANGED << messages_from_engine, messages_from_game >> ]_vars
    /\ FiltersLiveWhenClosed

\* C18 as amended. Once the last Sender of the log channel is dropped, the
\* records sent before are still received; once the channel is empty it
\* stays empty and no step changes a ring; check-box changes are still
\* applied, and a tick in which a filter changed rebuilds the rows from the
\* records retained.
C18_ClosedAndDrainedLeavesRings ==
    /\ [][ (~connected /\ log_message_receiver = << >>)
           => UNCHANGED << messages_from_engine, messages_from_game,
                           log_message_receiver >> ]_vars
    /\ FiltersLiveWhenClosed

\* A tick that found the channel closed and empty has changed a filter,
\* rebuilt the rows from the records received before, and stands before its
\* redraw request.
C18_Witness ==
    /\ ~connected
    /\ pc = "aux"
    /\ message_receiver = << >>
    /\ ~received_anything
    /\ filter_changed
    /\ model_updated
    /\ ~AllFiltersOn
    /\ view # << >>
    /\ Len(view) < Cardinality({ << m.kind, m.content >> :
                                   m \in { messages_from_engine[i] :
                                             i \in DOMAIN messages_from_engine }
                                        \cup { messages_from_game[i] :
                                                 i \in DOMAIN messages_from_game } })

----------------------------------------------------------------------------
\* C19. Exit is not handled in the tick: when update() takes an Exit message
\* from the auxiliary channel, it stays in its loop over that channel, from
\* which it goes on to the redraw request, and the rings, the five filters
\* and the view stay as the earlier steps of the tick left them.
C19_ExitNotHandled ==
    [][ ( /\ pc = "aux"
          /\ message_receiver # << >>
          /\ Head(message_receiver) = "Exit"
          /\ message_receiver' = Tail(message_receiver) )
        => ( /\ pc' = "aux"
             /\ UNCHANGED << messages_from_engine, messages_from_game, filters,
                             view >> ) ]_vars

----------------------------------------------------------------------------
\* C20. Tick progress: a tick that has begun to drain the log channel comes
\* to the end of the drain, then to the end of the poll of the UI messages,
\* and to its redraw request, after which update() returns, also while the
\* producers keep sending.
C20_TickProgress ==
    /\ (pc = "drain") ~> (pc = "poll")
    /\ (pc = "poll") ~> (pc = "decide")
    /\ (pc = "drain") ~> (pc = "idle")

====
